---------------------------- MODULE Spec2Model ----------------------------
(***************************************************************************)
(* Model of can_reverse_from_dump_debug.py: the candump line decoder, the  *)
(* per-address byte model (IdState), the registry (ReverseTool.states) and *)
(* the passes that consume the decoded frame list.                         *)
(*                                                                         *)
(* Byte indices are the code's 0-based indices; a TLA+ sequence is 1-based,*)
(* so index i of the code is element i+1 of the sequence that models it.   *)
(***************************************************************************)
EXTENDS Integers, Sequences, FiniteSets, TLC

\* ------------------------------------------------------------------ bounds
\* largest byte value of a payload handed directly to the byte model
MaxByte == 1
\* longest payload handed directly to the byte model
MaxLen == 2
\* longest frame list handed to the passes
MaxFrames == 3
\* number of calibrate / monitor passes run on one registry
MaxPasses == 3
\* number of lines read from the capture file
MaxLines == 2
\* largest timestamp of a frame, in tenths of a second
MaxTs == 3

\* frames of a list handed to the reports
MaxReportFrames == 4

\* --------------------------------------------------------- program constants
MAX_CAN_DLC == 8

\* the addresses that occur in the inputs
Ids == {1, 2}

\* the address of the model that is exercised call by call
ModelIds == {1}

\* Frame.ts of a line without timestamp (None); a timestamp is never negative
NoTs == -1

\* limit = None of parse_candump
NoLimit == -1

Bytes == 0..MaxByte

Payloads == UNION {[1..n -> Bytes] : n \in 0..MaxLen}

Max(a, b) == IF a >= b THEN a ELSE b

Min(a, b) == IF a <= b THEN a ELSE b

\* ------------------------------------------------------------- the byte model
ByteState == [value |-> 0, disqualified |-> FALSE]

IdState(can_id) ==
  [can_id |-> can_id, seen_len |-> 0, fully_disqualified |-> FALSE,
   bytes |-> [i \in 1..MAX_CAN_DLC |-> ByteState]]

\* body of the calibration loop for byte index i carrying b, in a model whose
\* seen_len was already raised
IngestByteRequalify(st, i, b) ==
  LET bs == st.bytes[i + 1] IN
  IF st.seen_len <= 1 /\ bs.value = 0
    THEN [st EXCEPT !.bytes[i + 1].value = b]
    ELSE [st EXCEPT !.bytes[i + 1].disqualified = (b # bs.value)]

\* the loop body with a first-touch seed: a value still 0 is seeded whatever
\* the width seen
IngestByteSeedAnyWidth(st, i, b) ==
  LET bs == st.bytes[i + 1] IN
  IF bs.disqualified
    THEN st
    ELSE IF bs.value = 0
           THEN [st EXCEPT !.bytes[i + 1].value = b]
           ELSE IF b # bs.value
                  THEN [st EXCEPT !.bytes[i + 1].disqualified = TRUE]
                  ELSE st

IngestByte(st, i, b) ==
  LET bs == st.bytes[i + 1] IN
  IF bs.disqualified
    THEN st
    ELSE IF st.seen_len <= 1 /\ bs.value = 0
           THEN [st EXCEPT !.bytes[i + 1].value = b]
           ELSE IF b # bs.value
                  THEN [st EXCEPT !.bytes[i + 1].disqualified = TRUE]
                  ELSE st

\* for i, b in enumerate(data): bs = self.bytes[i] raises IndexError once i
\* leaves the MAX_CAN_DLC byte states
RECURSIVE IngestLoop(_, _, _)
IngestLoop(st, data, i) ==
  IF i >= Len(data)
    THEN [st |-> st, err |-> "none"]
    ELSE IF i >= MAX_CAN_DLC
           THEN [st |-> st, err |-> "IndexError"]
           ELSE IngestLoop(IngestByte(st, i, data[i + 1]), data, i + 1)

AllDisqualifiedEveryState(st) ==
  \A i \in 0..(MAX_CAN_DLC - 1) : st.bytes[i + 1].disqualified

\* all(self.bytes[i].disqualified for i in range(self.seen_len))
AllDisqualified(st) ==
  \A i \in 0..(st.seen_len - 1) : st.bytes[i + 1].disqualified

ingest_for_calibration(st, data) ==
  IF Len(data) = 0
    THEN [st |-> st, err |-> "none"]
    ELSE LET widened == [st EXCEPT !.seen_len = Max(st.seen_len, Len(data))]
             r == IngestLoop(widened, data, 0)
         IN  IF r.err # "none"
               THEN r
               ELSE [st |-> [r.st EXCEPT
                               !.fully_disqualified = AllDisqualified(r.st)],
                     err |-> "none"]

\* body of the monitoring loop for byte index i carrying b: the record emitted
\* (or none) and the model after it
DiffByteNoDisqTest(st, i, b) ==
  LET bs == st.bytes[i + 1] IN
  IF b # bs.value
    THEN [st |-> [st EXCEPT !.bytes[i + 1].value = b],
          out |-> <<[i |-> i, old |-> bs.value, new |-> b]>>]
    ELSE [st |-> st, out |-> << >>]

DiffByteNoUpdate(st, i, b) ==
  LET bs == st.bytes[i + 1] IN
  IF ~bs.disqualified /\ b # bs.value
    THEN [st |-> st,
          out |-> <<[i |-> i, old |-> bs.value, new |-> b]>>]
    ELSE [st |-> st, out |-> << >>]

DiffByte(st, i, b) ==
  LET bs == st.bytes[i + 1] IN
  IF ~bs.disqualified /\ b # bs.value
    THEN [st |-> [st EXCEPT !.bytes[i + 1].value = b],
          out |-> <<[i |-> i, old |-> bs.value, new |-> b]>>]
    ELSE [st |-> st, out |-> << >>]

RECURSIVE DiffLoop(_, _, _, _)
DiffLoop(st, data, i, out) ==
  IF i >= Len(data) \/ i >= st.seen_len
    THEN [st |-> st, out |-> out, err |-> "none"]
    ELSE IF i >= MAX_CAN_DLC
           THEN [st |-> st, out |-> out, err |-> "IndexError"]
           ELSE LET r == DiffByte(st, i, data[i + 1])
                IN  DiffLoop(r.st, data, i + 1, out \o r.out)

diff_and_report(st, data) == DiffLoop(st, data, 0, << >>)

\* ------------------------------------------------------------------ registry
\* ReverseTool._state: the model of can_id, created on first use
_state(reg, can_id) ==
  IF can_id \in DOMAIN reg THEN reg ELSE reg @@ (can_id :> IdState(can_id))

\* self._state(fr.can_id).ingest_for_calibration(fr.data) for the frames from
\* the k-th on; an exception leaves the registry as it was when it was raised
RECURSIVE CalibrateLoop(_, _, _)
CalibrateLoop(reg, frs, k) ==
  IF k > Len(frs)
    THEN [reg |-> reg, cnt |-> Len(frs), err |-> "none"]
    ELSE LET fr == frs[k]
             created == _state(reg, fr.can_id)
             r == ingest_for_calibration(created[fr.can_id], fr.data)
             after == [created EXCEPT ![fr.can_id] = r.st]
         IN  IF r.err # "none"
               THEN [reg |-> after, cnt |-> k - 1, err |-> r.err]
               ELSE CalibrateLoop(after, frs, k + 1)

\* sorted(self.states.keys())
RECURSIVE Sorted(_)
Sorted(S) ==
  IF S = {}
    THEN << >>
    ELSE LET m == CHOOSE x \in S : \A y \in S : x <= y
         IN  <<m>> \o Sorted(S \ {m})

HexDigits ==
  <<"0", "1", "2", "3", "4", "5", "6", "7", "8", "9",
    "A", "B", "C", "D", "E", "F">>

\* f"{value:02X}" of a byte
Hex02(value) == <<HexDigits[(value \div 16) + 1], HexDigits[(value % 16) + 1]>>

\* "XX" if bs.disqualified else f"{bs.value:02X}", over range(st.seen_len)
Row(st) ==
  [k \in 1..st.seen_len |->
     IF st.bytes[k].disqualified THEN <<"X", "X">> ELSE Hex02(st.bytes[k].value)]

\* the calibration table: one row for each address, ascending, that was seen
\* with a byte and is not fully disqualified
RECURSIVE TableRows(_, _, _)
TableRows(reg, keys, k) ==
  IF k > Len(keys)
    THEN << >>
    ELSE LET st == reg[keys[k]]
             rest == TableRows(reg, keys, k + 1)
         IN  IF st.seen_len = 0 \/ st.fully_disqualified
               THEN rest
               ELSE <<[cid |-> keys[k], row |-> Row(st)]>> \o rest

Table(reg) == TableRows(reg, Sorted(DOMAIN reg), 1)

calibrate(reg, frs) ==
  LET r == CalibrateLoop(reg, frs, 1)
  IN  [reg |-> r.reg, err |-> r.err,
       out |-> [cnt |-> r.cnt,
                rows |-> IF r.err = "none" THEN Table(r.reg) ELSE << >>]]

\* the loop of ReverseTool.monitor from the k-th frame on
RECURSIVE MonitorLoop(_, _, _, _, _)
MonitorLoop(reg, frs, k, cnt, changes) ==
  IF k > Len(frs)
    THEN [reg |-> reg, cnt |-> cnt, changes |-> changes, err |-> "none"]
    ELSE LET fr == frs[k] IN
         IF \/ fr.can_id \notin DOMAIN reg
            \/ reg[fr.can_id].fully_disqualified
            \/ reg[fr.can_id].seen_len = 0
           THEN MonitorLoop(reg, frs, k + 1, cnt + 1, changes)
           ELSE LET r == diff_and_report(reg[fr.can_id], fr.data)
                    after == [reg EXCEPT ![fr.can_id] = r.st]
                    printed == [j \in 1..Len(r.out) |->
                                  [id |-> fr.can_id, i |-> r.out[j].i,
                                   old |-> r.out[j].old, new |-> r.out[j].new]]
                IN  IF r.err # "none"
                      THEN [reg |-> after, cnt |-> cnt, changes |-> changes,
                            err |-> r.err]
                      ELSE MonitorLoop(after, frs, k + 1, cnt + 1,
                                       changes \o printed)

\* monitor with self._state(fr.can_id) in place of self.states.get(fr.can_id):
\* an address without a model gets a fresh one
monitorCreating(reg, frs) ==
  LET ids == DOMAIN reg \cup {frs[k].can_id : k \in 1..Len(frs)}
      created == [id \in ids |->
                    IF id \in DOMAIN reg THEN reg[id] ELSE IdState(id)]
      r == MonitorLoop(created, frs, 1, 0, << >>)
  IN  [reg |-> r.reg, err |-> r.err,
       out |-> [cnt |-> r.cnt, changes |-> r.changes]]

\* ReverseTool.monitor(frs)
monitor(reg, frs) ==
  LET r == MonitorLoop(reg, frs, 1, 0, << >>)
  IN  [reg |-> r.reg, err |-> r.err,
       out |-> [cnt |-> r.cnt, changes |-> r.changes]]

\* ------------------------------------------------------------------- decoder
\* A line is the record of its whitespace-separated fields, each field the
\* sequence of its characters: ts the text between the parentheses (empty: no
\* parenthesised field), bus whether the canN token is there, id the address
\* field, dlc the text between the brackets, data the fields after it.  The
\* line whose every field is empty is the blank line.
LowerHexDigits ==
  <<"0", "1", "2", "3", "4", "5", "6", "7", "8", "9",
    "a", "b", "c", "d", "e", "f">>

IsDigit(c) == \E k \in 1..10 : HexDigits[k] = c

IsHex(c) == \E k \in 1..16 : HexDigits[k] = c \/ LowerHexDigits[k] = c

HexValue(c) == (CHOOSE k \in 1..16 : HexDigits[k] = c \/ LowerHexDigits[k] = c) - 1

\* int(tok, base) of a field of digits of that base
RECURSIVE ParseInt(_, _)
ParseInt(tok, base) ==
  IF tok = << >>
    THEN 0
    ELSE ParseInt(SubSeq(tok, 1, Len(tok) - 1), base) * base
           + HexValue(tok[Len(tok)])

\* [\d\.]+
TsShape(tok) == tok # << >> /\ \A k \in 1..Len(tok) : IsDigit(tok[k]) \/ tok[k] = "."

\* [0-9A-Fa-f]+
IdShape(tok) == tok # << >> /\ \A k \in 1..Len(tok) : IsHex(tok[k])

\* \d+
DlcShape(tok) == tok # << >> /\ \A k \in 1..Len(tok) : IsDigit(tok[k])

\* the length of the longest prefix of a field made of hex pairs
RECURSIVE PairsPrefix(_, _)
PairsPrefix(tok, k) ==
  IF k + 2 <= Len(tok) /\ IsHex(tok[k + 1]) /\ IsHex(tok[k + 2])
    THEN PairsPrefix(tok, k + 2)
    ELSE k

\* (?:[0-9A-Fa-f]{2}\s*)+ matched from the k-th data field on, then split():
\* a field of hex pairs is taken whole, the first field that is not ends the
\* group after the pairs it starts with
RECURSIVE DataGroup(_, _)
DataGroup(data, k) ==
  IF k > Len(data)
    THEN << >>
    ELSE LET n == PairsPrefix(data[k], 0) IN
         IF n = Len(data[k])
           THEN <<data[k]>> \o DataGroup(data, k + 1)
           ELSE IF n = 0 THEN << >> ELSE <<SubSeq(data[k], 1, n)>>

\* candump_patterns[0].search(line)
Match1(line) ==
  /\ TsShape(line.ts)
  /\ line.bus
  /\ IdShape(line.id)
  /\ DlcShape(line.dlc)
  /\ DataGroup(line.data, 1) # << >>

\* candump_patterns[1].search(line): it also finds the tail of a line whose
\* parenthesised field is not of the timestamp shape
Match2(line) ==
  /\ line.bus
  /\ IdShape(line.id)
  /\ DlcShape(line.dlc)
  /\ DataGroup(line.data, 1) # << >>

\* float(tok) succeeds on digits with at most one point
FloatOk(tok) ==
  /\ \E k \in 1..Len(tok) : IsDigit(tok[k])
  /\ Cardinality({k \in 1..Len(tok) : tok[k] = "."}) <= 1

\* float(tok) in tenths of a second; the timestamps of the inputs have at most
\* one digit after the point
Float(tok) ==
  LET dots == {k \in 1..Len(tok) : tok[k] = "."}
      dot == IF dots = {} THEN Len(tok) + 1 ELSE CHOOSE k \in dots : TRUE
      whole == ParseInt(SubSeq(tok, 1, dot - 1), 10)
      frac == IF dot + 1 <= Len(tok) THEN HexValue(tok[dot + 1]) ELSE 0
  IN  whole * 10 + frac

BlankLine == [ts |-> << >>, bus |-> FALSE, id |-> << >>, dlc |-> << >>,
              data |-> << >>]

\* the body of the loop of parse_candump for one line: what becomes of it
\*   blank    skipped, not counted
\*   unparsed no pattern matches, counted
\*   raise    float() of the timestamp raises outside the try block
\*   error    an exception inside the try block, counted
\*   frame    a Frame is appended
ParseLine(line) ==
  IF line = BlankLine THEN [kind |-> "blank"]
  ELSE IF ~Match1(line) /\ ~Match2(line) THEN [kind |-> "unparsed"]
  ELSE IF Match1(line) /\ ~FloatOk(line.ts) THEN [kind |-> "raise"]
  ELSE LET ts == IF Match1(line) THEN Float(line.ts) ELSE NoTs
           can_id == ParseInt(line.id, 16)
           dlc == ParseInt(line.dlc, 10)
           group == DataGroup(line.data, 1)
           vals == [k \in 1..Len(group) |-> ParseInt(group[k], 16)]
       IN  IF \E k \in 1..Len(vals) : vals[k] > 255
             THEN [kind |-> "error"]
             ELSE [kind |-> "frame",
                   frame |-> [ts |-> ts, can_id |-> can_id, dlc |-> dlc,
                              data |-> SubSeq(vals, 1, Min(dlc, Len(vals)))]]

\* ------------------------------------------------------- the other passes
\* the addresses of a frame list in the order of their first frame: the key
\* order of the dictionaries the passes fill
RECURSIVE KeyOrder(_, _, _)
KeyOrder(frs, k, seen) ==
  IF k > Len(frs)
    THEN seen
    ELSE IF \E j \in 1..Len(seen) : seen[j] = frs[k].can_id
           THEN KeyOrder(frs, k + 1, seen)
           ELSE KeyOrder(frs, k + 1, Append(seen, frs[k].can_id))

Zeros == [i \in 1..MAX_CAN_DLC |-> 0]

\* for i in range(min(fr.dlc, MAX_CAN_DLC)): b = fr.data[i] ... from index i
\* on; reading past the bytes present raises IndexError
RECURSIVE VarianceFrame(_, _, _, _)
VarianceFrame(fr, i, sum, sum2) ==
  IF i >= Min(fr.dlc, MAX_CAN_DLC)
    THEN [sum |-> sum, sum2 |-> sum2, err |-> "none"]
    ELSE IF i >= Len(fr.data)
           THEN [sum |-> sum, sum2 |-> sum2, err |-> "IndexError"]
           ELSE LET b == fr.data[i + 1]
                IN  VarianceFrame(fr, i + 1,
                                  [sum EXCEPT ![i + 1] = @ + b],
                                  [sum2 EXCEPT ![i + 1] = @ + b * b])

\* the accumulation loop of variance_report from the k-th frame on; acc maps
\* an address to its counts, sums and sums2
RECURSIVE VarianceLoop(_, _, _)
VarianceLoop(frs, k, acc) ==
  IF k > Len(frs)
    THEN [acc |-> acc, err |-> "none"]
    ELSE LET fr == frs[k]
             cur == IF fr.can_id \in DOMAIN acc
                      THEN acc[fr.can_id]
                      ELSE [n |-> 0, sum |-> Zeros, sum2 |-> Zeros]
             r == VarianceFrame(fr, 0, cur.sum, cur.sum2)
             entry == [n |-> cur.n + 1, sum |-> r.sum, sum2 |-> r.sum2]
             after == [id \in DOMAIN acc \cup {fr.can_id} |->
                         IF id = fr.can_id THEN entry ELSE acc[id]]
         IN  IF r.err # "none"
               THEN [acc |-> after, err |-> r.err]
               ELSE VarianceLoop(frs, k + 1, after)

RECURSIVE SumOver(_, _)
SumOver(f, i) == IF i = 0 THEN 0 ELSE f[i] + SumOver(f, i - 1)

\* the score of an address, sum of max(0, sums2/n - (sums/n)^2) over the byte
\* indices, as the exact fraction num / (n * n)
Score(e) ==
  [num |-> SumOver([i \in 1..MAX_CAN_DLC |->
                      Max(0, e.n * e.sum2[i] - e.sum[i] * e.sum[i])],
                   MAX_CAN_DLC),
   den |-> e.n * e.n]

\* the sort key of row a is above that of row b: the test of an ascending sort
KeyBelowAscending(a, b) == a.key.num * b.key.den > b.key.num * a.key.den

\* the sort key of row a, a fraction, is below that of row b
KeyBelow(a, b) == a.key.num * b.key.den < b.key.num * a.key.den

\* list.sort(key, reverse=True): descending by the key, rows of equal key keep
\* their order
RECURSIVE InsertDescending(_, _)
InsertDescending(sorted, x) ==
  IF sorted = << >>
    THEN <<x>>
    ELSE IF KeyBelow(sorted[1], x)
           THEN <<x>> \o sorted
           ELSE <<sorted[1]>> \o InsertDescending(Tail(sorted), x)

RECURSIVE SortDescending(_, _)
SortDescending(items, k) ==
  IF k = 0
    THEN << >>
    ELSE InsertDescending(SortDescending(items, k - 1), items[k])

\* seq[:n]
Take(seq, n) == SubSeq(seq, 1, Min(n, Len(seq)))

VARIANCE_TOP_N == 15

ID_SUMMARY_TOP_N == 30

\* variance_report without the test n < 2: every address is ranked
variance_reportAll(frs) ==
  LET r == VarianceLoop(frs, 1, << >>)
      keys == KeyOrder(frs, 1, << >>)
      ranked == [k \in 1..Len(keys) |->
                   [cid |-> keys[k], key |-> Score(r.acc[keys[k]]),
                    n |-> r.acc[keys[k]].n]]
  IN  IF r.err # "none"
        THEN [err |-> r.err, out |-> << >>]
        ELSE [err |-> "none",
              out |-> Take(SortDescending(ranked, Len(ranked)),
                           VARIANCE_TOP_N)]

\* ReverseTool.variance_report(frames, top_n = 15): the rows printed
variance_report(frs) ==
  LET r == VarianceLoop(frs, 1, << >>)
      keys == KeyOrder(frs, 1, << >>)
      ranked == SelectSeq([k \in 1..Len(keys) |->
                             [cid |-> keys[k], key |-> Score(r.acc[keys[k]]),
                              n |-> r.acc[keys[k]].n]],
                          LAMBDA row : row.n >= 2)
  IN  IF r.err # "none"
        THEN [err |-> r.err, out |-> << >>]
        ELSE [err |-> "none",
              out |-> Take(SortDescending(ranked, Len(ranked)),
                           VARIANCE_TOP_N)]

\* id_summary without the test 'not in first': first is overwritten by every
\* frame
id_summaryFirstOverwritten(frs) ==
  LET keys == KeyOrder(frs, 1, << >>)
      Of(id) == {k \in 1..Len(frs) : frs[k].can_id = id}
      Last(id) == CHOOSE k \in Of(id) : \A j \in Of(id) : k >= j
      items == [k \in 1..Len(keys) |->
                  [cid |-> keys[k], n |-> Cardinality(Of(keys[k])),
                   key |-> [num |-> Cardinality(Of(keys[k])), den |-> 1],
                   first |-> frs[Last(keys[k])].data,
                   last |-> frs[Last(keys[k])].data]]
  IN  Take(SortDescending(items, Len(items)), ID_SUMMARY_TOP_N)

\* ReverseTool.id_summary(frames, top_n = 30): the rows printed
id_summary(frs) ==
  LET keys == KeyOrder(frs, 1, << >>)
      Of(id) == {k \in 1..Len(frs) : frs[k].can_id = id}
      First(id) == CHOOSE k \in Of(id) : \A j \in Of(id) : k <= j
      Last(id) == CHOOSE k \in Of(id) : \A j \in Of(id) : k >= j
      items == [k \in 1..Len(keys) |->
                  [cid |-> keys[k], n |-> Cardinality(Of(keys[k])),
                   key |-> [num |-> Cardinality(Of(keys[k])), den |-> 1],
                   first |-> frs[First(keys[k])].data,
                   last |-> frs[Last(keys[k])].data]]
  IN  Take(SortDescending(items, Len(items)), ID_SUMMARY_TOP_N)

\* byte_idxs = None of read_mode
AllBytes == <<-1>>

\* vals of one frame in read_mode; fr.data[i] raises IndexError for an index
\* below the declared length that is past the bytes present
ReadVals(fr, byte_idxs) ==
  IF byte_idxs = AllBytes
    THEN [err |-> "none",
          vals |-> [k \in 1..Len(fr.data) |-> Hex02(fr.data[k])]]
    ELSE IF \E k \in 1..Len(byte_idxs) :
              byte_idxs[k] < fr.dlc /\ byte_idxs[k] >= Len(fr.data)
           THEN [err |-> "IndexError", vals |-> << >>]
           ELSE [err |-> "none",
                 vals |-> [k \in 1..Len(byte_idxs) |->
                             IF byte_idxs[k] < fr.dlc
                               THEN Hex02(fr.data[byte_idxs[k] + 1])
                               ELSE <<"-", "-">>]]

\* ReverseTool.read_mode(frames, filter_id, byte_idxs) from the k-th frame on:
\* the lines printed
RECURSIVE ReadLoop(_, _, _, _, _)
ReadLoop(frs, filter_id, byte_idxs, k, lines) ==
  IF k > Len(frs)
    THEN [err |-> "none", out |-> lines]
    ELSE IF frs[k].can_id # filter_id
           THEN ReadLoop(frs, filter_id, byte_idxs, k + 1, lines)
           ELSE LET r == ReadVals(frs[k], byte_idxs) IN
                IF r.err # "none"
                  THEN [err |-> r.err, out |-> lines]
                  ELSE ReadLoop(frs, filter_id, byte_idxs, k + 1,
                                Append(lines, [ts |-> frs[k].ts,
                                               vals |-> r.vals]))

read_mode(frs, filter_id, byte_idxs) ==
  ReadLoop(frs, filter_id, byte_idxs, 1, << >>)

\* ------------------------------------------------------------------ helpers
\* A time is a count of tenths of a second; a bound of a window is the exact
\* fraction num / den of such counts, so that a third of a span is a bound.
Whole(t) == [num |-> t, den |-> 1]

\* start <= ts
NotBefore(ts, start) == start.num <= ts * start.den

\* ts < end
Before(ts, end) == ts * end.den < end.num

slice_by_timeClosed(frs, start, end) ==
  SelectSeq(frs, LAMBDA fr :
    \/ fr.ts = NoTs
    \/ NotBefore(fr.ts, start) /\ fr.ts * end.den <= end.num)

\* slice_by_time(frames, start, end): the frames yielded, in order
slice_by_time(frs, start, end) ==
  SelectSeq(frs, LAMBDA fr :
    \/ fr.ts = NoTs
    \/ NotBefore(fr.ts, start) /\ Before(fr.ts, end))

\* ---------------------------------------------------------------------- state
VARIABLES
  pc,         \* where the run is: "parsing" the file, "parsed", "exit", or
              \* the step of main that comes next
  limit,      \* parse_candump's limit on the number of frames, or NoLimit
  lineno,     \* number of lines read from the file so far
  bad_lines,  \* parse_candump's count of lines that failed to decode
  args,       \* the command line of the run
  frames,     \* the decoded frame list every pass of the run is handed
  states,     \* ReverseTool.states: address -> IdState
  passes,     \* number of calibrate / monitor passes run so far
  call,       \* the last call made on the tool or on a model, with its arguments
  out,        \* what the last call returned or printed
  err         \* the exception that ended the run, or "none"

vars ==
  <<pc, limit, lineno, bad_lines, args, frames, states, passes, call, out, err>>

parser == <<pc, limit, lineno, bad_lines, args>>

NoCall == [name |-> "none"]

\* --read not given
NoRead == -1

\* the defaults of the command line: no window, no report, no read mode
NoArgs == [calib |-> 0, monitor |-> 0, id_summary |-> FALSE,
           variance |-> FALSE, read |-> NoRead]

\* the payloads of the frame lists handed to the passes
ToolPayloads == UNION {[1..n -> {0, 1}] : n \in 0..2}

\* the frames of a list handed to the passes: no timestamp, as many bytes as
\* declared
ToolFrames ==
  {[ts |-> NoTs, can_id |-> id, dlc |-> Len(d), data |-> d] :
     id \in Ids, d \in ToolPayloads}

FrameSeqs == UNION {[1..n -> ToolFrames] : n \in 1..MaxFrames}

\* ------------------------------------------- one byte model, call by call
Init ==
  /\ pc = "parsed"
  /\ limit = NoLimit
  /\ lineno = 0
  /\ bad_lines = 0
  /\ args = NoArgs
  /\ frames = << >>
  /\ states = << >>
  /\ passes = 0
  /\ call = NoCall
  /\ out = << >>
  /\ err = "none"

\* self._state(can_id).ingest_for_calibration(data)
Ingest(can_id, data) ==
  LET reg == _state(states, can_id)
      r == ingest_for_calibration(reg[can_id], data)
  IN  /\ err = "none"
      /\ states' = [reg EXCEPT ![can_id] = r.st]
      /\ call' = [name |-> "ingest_for_calibration", can_id |-> can_id,
                  data |-> data]
      /\ out' = << >>
      /\ err' = r.err
      /\ UNCHANGED <<parser, frames, passes>>

\* tool.monitor([fr]): a monitoring pass over one frame; the count of passes is
\* not kept here, the calls go on for ever
MonitorFrame(can_id, data) ==
  LET frs == <<[ts |-> NoTs, can_id |-> can_id, dlc |-> Len(data),
                data |-> data]>>
      r == monitor(states, frs)
  IN  /\ err = "none"
      /\ states' = r.reg
      /\ out' = r.out
      /\ err' = r.err
      /\ call' = [name |-> "monitor", frames |-> frs]
      /\ UNCHANGED <<parser, frames, passes>>

Next ==
  \/ \E can_id \in ModelIds, data \in Payloads : Ingest(can_id, data)
  \/ \E can_id \in ModelIds, data \in Payloads : MonitorFrame(can_id, data)

Spec == Init /\ [][Next]_vars

\* ---------------------------------------- the passes over one frame list
\* tool.calibrate(frs)
CalibratePass(frs) ==
  /\ pc = "parsed"
  /\ err = "none"
  /\ passes < MaxPasses
  /\ LET r == calibrate(states, frs)
     IN  /\ states' = r.reg
         /\ out' = r.out
         /\ err' = r.err
  /\ call' = [name |-> "calibrate", frames |-> frs]
  /\ passes' = passes + 1
  /\ UNCHANGED <<parser, frames>>

\* tool.monitor(frs)
MonitorPass(frs) ==
  /\ pc = "parsed"
  /\ err = "none"
  /\ passes < MaxPasses
  /\ LET r == monitor(states, frs)
     IN  /\ states' = r.reg
         /\ out' = r.out
         /\ err' = r.err
  /\ call' = [name |-> "monitor", frames |-> frs]
  /\ passes' = passes + 1
  /\ UNCHANGED <<parser, frames>>

InitTool ==
  /\ pc = "parsed"
  /\ limit = NoLimit
  /\ lineno = 0
  /\ bad_lines = 0
  /\ args = NoArgs
  /\ frames \in FrameSeqs
  /\ states = << >>
  /\ passes = 0
  /\ call = NoCall
  /\ out = << >>
  /\ err = "none"

Calibrate == CalibratePass(frames)

Monitor == MonitorPass(frames)

NextTool ==
  \/ Calibrate
  \/ Monitor

SpecTool == InitTool /\ [][NextTool]_vars

\* calibration passes alone, no monitoring
NextCalib == Calibrate

SpecCalib == InitTool /\ [][NextCalib]_vars

\* ------------------------------------- a run: decode the file, then the passes
\* the fields of the input lines
T0 == <<"0">>
T1 == <<"1">>
T2 == <<"2">>
T8 == <<"8">>
T9 == <<"9">>
B00 == <<"0", "0">>
B01 == <<"0", "1">>

\* well-formed lines without timestamp: both addresses, declared lengths
\* 0, 2, 8 and 9, and one, two or nine byte fields
GoodLines ==
  [ts : {<< >>}, bus : {TRUE}, id : {T1, T2}, dlc : {T0, T2, T8, T9},
   data : {<<B00>>, <<B01>>, <<B00, B01>>, [k \in 1..9 |-> B01]}]

BaseLine == [ts |-> << >>, bus |-> TRUE, id |-> T1, dlc |-> T2,
             data |-> <<B00, B01>>]

\* one field of the base line changed: a timestamp, a timestamp with two
\* points, a parenthesised field that is no number, no bus token, an address
\* or a length that is no number, no hex pair, a hex pair followed by another
\* field, pairs written together, and the blank line
OddLines ==
  {[BaseLine EXCEPT !.ts = <<"1", ".", "5">>],
   [BaseLine EXCEPT !.ts = <<"1", ".", "2", ".", "3">>],
   [BaseLine EXCEPT !.ts = <<"z">>],
   [BaseLine EXCEPT !.bus = FALSE],
   [BaseLine EXCEPT !.id = <<"1", "z">>],
   [BaseLine EXCEPT !.dlc = <<"z">>],
   [BaseLine EXCEPT !.data = <<<<"z", "z">>>>],
   [BaseLine EXCEPT !.data = <<B01, <<"z", "z">>>>],
   [BaseLine EXCEPT !.data = <<<<"0", "1", "F", "F">>>>],
   [BaseLine EXCEPT !.data = <<<<"0", "0", "1", "1">>>>],
   BlankLine}

Lines == GoodLines \cup OddLines

InitParse ==
  /\ pc = "parsing"
  /\ limit \in {NoLimit, 1}
  /\ lineno = 0
  /\ bad_lines = 0
  /\ args = NoArgs
  /\ frames = << >>
  /\ states = << >>
  /\ passes = 0
  /\ call = NoCall
  /\ out = << >>
  /\ err = "none"

LimitReached == limit # NoLimit /\ Len(frames) >= limit

\* one turn of the loop of parse_candump, on the next line of the file
ReadLine(line) ==
  /\ pc = "parsing"
  /\ err = "none"
  /\ lineno < MaxLines
  /\ ~LimitReached
  /\ LET r == ParseLine(line) IN
     /\ frames' = IF r.kind = "frame" THEN Append(frames, r.frame) ELSE frames
     /\ bad_lines' = IF r.kind \in {"unparsed", "error"}
                       THEN bad_lines + 1 ELSE bad_lines
     /\ err' = IF r.kind = "raise" THEN "ValueError" ELSE "none"
  /\ lineno' = lineno + 1
  /\ call' = [name |-> "parse_candump", line |-> line]
  /\ UNCHANGED <<pc, limit, args, states, passes, out>>

\* the loop ends, at the end of the file or at the limit; main exits when no
\* frame was decoded
ParseEnd ==
  /\ pc = "parsing"
  /\ err = "none"
  /\ pc' = IF frames = << >> THEN "exit" ELSE "parsed"
  /\ call' = [name |-> "parse_candump_return"]
  /\ UNCHANGED <<limit, lineno, bad_lines, args, frames, states, passes, out,
               err>>

\* tool.variance_report(frames)
VarianceReport ==
  /\ pc = "parsed"
  /\ err = "none"
  /\ LET r == variance_report(frames)
     IN  /\ out' = r.out
         /\ err' = r.err
  /\ call' = [name |-> "variance_report"]
  /\ UNCHANGED <<parser, frames, states, passes>>

\* tool.id_summary(frames)
IdSummary ==
  /\ pc = "parsed"
  /\ err = "none"
  /\ out' = id_summary(frames)
  /\ call' = [name |-> "id_summary"]
  /\ UNCHANGED <<parser, frames, states, passes, err>>

\* the byte selections of read mode: all, or explicit indices
ByteSelections == {AllBytes, <<0>>, <<0, 1>>, <<8>>}

\* tool.read_mode(frames, filter_id, byte_idxs)
ReadMode(filter_id, byte_idxs) ==
  /\ pc = "parsed"
  /\ err = "none"
  /\ LET r == read_mode(frames, filter_id, byte_idxs)
     IN  /\ out' = r.out
         /\ err' = r.err
  /\ call' = [name |-> "read_mode", filter_id |-> filter_id,
              byte_idxs |-> byte_idxs]
  /\ UNCHANGED <<parser, frames, states, passes>>

NextParse ==
  \/ \E line \in Lines : ReadLine(line)
  \/ ParseEnd
  \/ Calibrate
  \/ Monitor
  \/ VarianceReport
  \/ IdSummary
  \/ \E filter_id \in Ids, byte_idxs \in ByteSelections :
       ReadMode(filter_id, byte_idxs)

SpecParse == InitParse /\ [][NextParse]_vars

\* --------------------------------------------- the slicer on one frame list
\* frames with and without timestamp
TsFrames ==
  {[ts |-> t, can_id |-> 1, dlc |-> Len(d), data |-> d] :
     t \in {NoTs} \cup 0..MaxTs, d \in {<<0>>, <<1>>}}

TsFrameSeqs == UNION {[1..n -> TsFrames] : n \in 1..MaxFrames}

\* the frame lists handed to the slicer alone: one payload, every timestamp
SliceFrameSeqs ==
  UNION {[1..n -> {fr \in TsFrames : fr.data = <<0>>}] : n \in 1..MaxFrames}

InitSlice ==
  /\ pc = "parsed"
  /\ limit = NoLimit
  /\ lineno = 0
  /\ bad_lines = 0
  /\ args = NoArgs
  /\ frames \in SliceFrameSeqs
  /\ states = << >>
  /\ passes = 0
  /\ call = NoCall
  /\ out = << >>
  /\ err = "none"

\* list(slice_by_time(frames, start, end))
SliceByTime(start, end) ==
  /\ pc = "parsed"
  /\ out' = slice_by_time(frames, Whole(start), Whole(end))
  /\ call' = [name |-> "slice_by_time", start |-> start, end |-> end]
  /\ UNCHANGED <<parser, frames, states, passes, err>>

NextSlice == \E start \in 0..(MaxTs + 1), end \in 0..(MaxTs + 1) :
               SliceByTime(start, end)

SpecSlice == InitSlice /\ [][NextSlice]_vars

\* ------------------------------------------- the reports on one frame list
\* the payloads of the frame lists handed to the reports: 00 and FF, one and
\* two bytes
ReportPayloads == {<<0>>, <<255>>, <<255, 255>>}

\* the frames handed to the reports: as many bytes as declared, and one frame
\* of address 1 declared [2] with one byte
ReportFrames ==
  {[ts |-> NoTs, can_id |-> id, dlc |-> Len(d), data |-> d] :
     id \in Ids, d \in ReportPayloads}
  \cup {[ts |-> NoTs, can_id |-> 1, dlc |-> 2, data |-> <<255>>]}

ReportFrameSeqs == UNION {[1..n -> ReportFrames] : n \in 1..MaxReportFrames}

InitReport ==
  /\ pc = "parsed"
  /\ limit = NoLimit
  /\ lineno = 0
  /\ bad_lines = 0
  /\ args = NoArgs
  /\ frames \in ReportFrameSeqs
  /\ states = << >>
  /\ passes = 0
  /\ call = NoCall
  /\ out = << >>
  /\ err = "none"

NextReport ==
  \/ VarianceReport
  \/ IdSummary

SpecReport == InitReport /\ [][NextReport]_vars

\* ------------------------------------- main: the passes the command line asks
\* --calib and --monitor in seconds, 0 when not given
CalibSeconds == 8

MonitorSeconds == 12

InitMain ==
  /\ pc = "parsed"
  /\ limit = NoLimit
  /\ lineno = 0
  /\ bad_lines = 0
  /\ args \in [calib : {0, CalibSeconds}, monitor : {0, MonitorSeconds},
               id_summary : BOOLEAN, variance : BOOLEAN, read : {NoRead, 1}]
  /\ frames \in TsFrameSeqs
  /\ states = << >>
  /\ passes = 0
  /\ call = NoCall
  /\ out = << >>
  /\ err = "none"

have_ts == frames[1].ts # NoTs /\ frames[Len(frames)].ts # NoTs

t_min == frames[1].ts

t_max == frames[Len(frames)].ts

span == t_max - t_min

\* the test that chooses the automatic windows
AutoSplit ==
  args.calib = 0 /\ args.monitor = 0 /\ have_ts /\ t_max > t_min

\* c0, c1 = t_min, t_min + span/3.0
c0 == Whole(t_min)

c1 == [num |-> 3 * t_min + span, den |-> 3]

\* m0, m1 = t_min + span/3.0, t_min + 2*span/3.0
m0 == [num |-> 3 * t_min + span, den |-> 3]

m1 == [num |-> 3 * t_min + 2 * span, den |-> 3]

\* if args.id_summary: tool.id_summary(frames)
MainIdSummary ==
  /\ pc = "parsed"
  /\ err = "none"
  /\ pc' = "variance"
  /\ IF args.id_summary
       THEN /\ out' = id_summary(frames)
            /\ call' = [name |-> "id_summary"]
       ELSE UNCHANGED <<out, call>>
  /\ UNCHANGED <<limit, lineno, bad_lines, args, frames, states, passes, err>>

\* if args.variance == "top": tool.variance_report(frames, top_n=15)
MainVariance ==
  /\ pc = "variance"
  /\ err = "none"
  /\ pc' = "calibrate"
  /\ IF args.variance
       THEN /\ LET r == variance_report(frames)
               IN  /\ out' = r.out
                   /\ err' = r.err
            /\ call' = [name |-> "variance_report"]
       ELSE UNCHANGED <<out, err, call>>
  /\ UNCHANGED <<limit, lineno, bad_lines, args, frames, states, passes>>

\* the frames main hands to tool.calibrate, << >> standing for no call
CalibrateFrames ==
  IF AutoSplit THEN slice_by_time(frames, c0, c1)
  ELSE IF args.calib > 0 THEN frames
  ELSE << >>

\* the frames main hands to tool.monitor, << >> standing for no call
MonitorFrames ==
  IF AutoSplit THEN slice_by_time(frames, m0, m1)
  ELSE IF args.monitor > 0 THEN frames
  ELSE << >>

\* the calibration of main: on the first third, on the full list, or none
MainCalibrate ==
  /\ pc = "calibrate"
  /\ err = "none"
  /\ pc' = "monitor"
  /\ IF AutoSplit \/ args.calib > 0
       THEN /\ LET r == calibrate(states, CalibrateFrames)
               IN  /\ states' = r.reg
                   /\ out' = r.out
                   /\ err' = r.err
            /\ call' = [name |-> "calibrate", frames |-> CalibrateFrames]
            /\ passes' = passes + 1
       ELSE UNCHANGED <<states, out, err, call, passes>>
  /\ UNCHANGED <<limit, lineno, bad_lines, args, frames>>

\* the monitoring of main: on the second third, on the full list, or none
MainMonitor ==
  /\ pc = "monitor"
  /\ err = "none"
  /\ pc' = "read"
  /\ IF AutoSplit \/ args.monitor > 0
       THEN /\ LET r == monitor(states, MonitorFrames)
               IN  /\ states' = r.reg
                   /\ out' = r.out
                   /\ err' = r.err
            /\ call' = [name |-> "monitor", frames |-> MonitorFrames]
            /\ passes' = passes + 1
       ELSE UNCHANGED <<states, out, err, call, passes>>
  /\ UNCHANGED <<limit, lineno, bad_lines, args, frames>>

\* if args.read is not None: tool.read_mode(frames, args.read, None)
MainRead ==
  /\ pc = "read"
  /\ err = "none"
  /\ pc' = "done"
  /\ IF args.read # NoRead
       THEN /\ LET r == read_mode(frames, args.read, AllBytes)
               IN  /\ out' = r.out
                   /\ err' = r.err
            /\ call' = [name |-> "read_mode", filter_id |-> args.read,
                        byte_idxs |-> AllBytes]
       ELSE UNCHANGED <<out, err, call>>
  /\ UNCHANGED <<limit, lineno, bad_lines, args, frames, states, passes>>

NextMain ==
  \/ MainIdSummary
  \/ MainVariance
  \/ MainCalibrate
  \/ MainMonitor
  \/ MainRead

SpecMain == InitMain /\ [][NextMain]_vars

\* ------------------------------------------------------------------- claims
\* the byte indices of [0, observed_width) of a model
Width(st) == {i \in 0..(MAX_CAN_DLC - 1) : i < st.seen_len}

AfterIngest == call.name = "ingest_for_calibration"

\* C1 (as stated): after every calibration ingestion, of any payload of length
\* 0..8 and also the first one into a fresh model, fully_disqualified is true
\* iff every byte index of [0, observed_width) is disqualified.
C1_AfterEveryIngestion ==
  AfterIngest =>
    LET st == states[call.can_id] IN
    st.fully_disqualified <=> \A i \in Width(st) : st.bytes[i + 1].disqualified

\* C1 (amended): after a calibration ingestion that leaves observed_width >= 1
\* fully_disqualified is true iff every byte index of [0, observed_width) is
\* disqualified; an empty payload ingested while observed_width = 0 is ignored
\* and leaves fully_disqualified false.
C1_RecomputedOnceWidened ==
  AfterIngest =>
    LET st == states[call.can_id] IN
    /\ st.seen_len >= 1 =>
         (st.fully_disqualified <=>
            \A i \in Width(st) : st.bytes[i + 1].disqualified)
    /\ st.seen_len = 0 => ~st.fully_disqualified

C1_Witness ==
  /\ AfterIngest
  /\ states[call.can_id].seen_len = 2
  /\ Len(call.data) = 1
  /\ states[call.can_id].fully_disqualified
  /\ states[call.can_id].bytes[1].value # 0

\* C2: disqualification is monotonic: no calibration ingestion and no
\* monitoring diff turns a disqualified byte index back to not disqualified.
C2_DisqualifiedStays ==
  [][\A id \in DOMAIN states : \A i \in 0..(MAX_CAN_DLC - 1) :
       states[id].bytes[i + 1].disqualified =>
         /\ id \in DOMAIN states'
         /\ states'[id].bytes[i + 1].disqualified]_vars

\* an ingestion has just offered a disqualified index the very value it stores
C2_Witness ==
  /\ AfterIngest
  /\ \E i \in 0..(MAX_CAN_DLC - 1) :
       /\ i < Len(call.data)
       /\ states[call.can_id].bytes[i + 1].disqualified
       /\ states[call.can_id].bytes[i + 1].value = call.data[i + 1]

\* C5: a monitoring diff emits exactly one record (i, old, new) for each index
\* i < observed_width present in the payload that is not disqualified and whose
\* incoming byte differs from the stored value, and no other record; afterwards
\* the stored value at each such i is the incoming byte and every other stored
\* value is unchanged.
C5_DiffRecords ==
  [][(/\ call'.name = "monitor"
      /\ call'.frames[1].can_id \in DOMAIN states
      /\ states[call'.frames[1].can_id].seen_len > 0
      /\ ~states[call'.frames[1].can_id].fully_disqualified) =>
       LET id == call'.frames[1].can_id
           data == call'.frames[1].data
           st == states[id]
           Changed == {i \in Width(st) :
                         /\ i < Len(data)
                         /\ ~st.bytes[i + 1].disqualified
                         /\ data[i + 1] # st.bytes[i + 1].value}
       IN  /\ Len(out'.changes) = Cardinality(Changed)
           /\ \A i \in Changed : \E k \in 1..Len(out'.changes) :
                 out'.changes[k] = [id |-> id, i |-> i,
                                    old |-> st.bytes[i + 1].value,
                                    new |-> data[i + 1]]
           /\ \A i \in 0..(MAX_CAN_DLC - 1) :
                 states'[id].bytes[i + 1].value =
                   IF i \in Changed THEN data[i + 1] ELSE st.bytes[i + 1].value
     ]_vars

\* a diff of a two-byte payload that reported one index and passed over the other
C5_Witness ==
  /\ call.name = "monitor"
  /\ Len(call.frames[1].data) = 2
  /\ Len(out.changes) = 1
  /\ states[call.frames[1].can_id].seen_len = 2
  /\ ~states[call.frames[1].can_id].fully_disqualified

\* C6: no change record of a monitoring pass has an index >= the observed_width
\* of its address, and none has an index whose byte state is disqualified, as
\* the model stood when the pass began (a pass changes neither).
C6_RecordsInsideWidth ==
  [][call'.name = "monitor" =>
       \A k \in 1..Len(out'.changes) :
         LET rec == out'.changes[k] IN
         /\ rec.id \in DOMAIN states
         /\ rec.i < states[rec.id].seen_len
         /\ ~states[rec.id].bytes[rec.i + 1].disqualified
         /\ states'[rec.id].seen_len = states[rec.id].seen_len
         /\ ~states'[rec.id].bytes[rec.i + 1].disqualified
     ]_vars

\* a monitored frame that reported one index, while a disqualified index of
\* the same frame carried a byte other than the stored one
C6_Witness ==
  /\ call.name = "monitor"
  /\ Len(out.changes) = 1
  /\ LET fr == call.frames[1] IN
     \E i \in 0..(MAX_CAN_DLC - 1) :
       /\ i < Len(fr.data)
       /\ states[fr.can_id].bytes[i + 1].disqualified
       /\ states[fr.can_id].bytes[i + 1].value # fr.data[i + 1]

\* the frames of the list that carry address id
FramesOf(id) == {k \in 1..Len(frames) : frames[k].can_id = id}

\* C3: an address whose every calibration frame carries the same payload p of
\* width n >= 1 has, after the calibration pass of a fresh registry,
\* observed_width = n, no index of [0, n) disqualified, the bytes of p as stored
\* values, and a row of the calibration table listing them.
C3_ConstantPayloadLearned ==
  (call.name = "calibrate" /\ passes = 1) =>
    \A id \in Ids : \A p \in Payloads :
      (/\ Len(p) >= 1
       /\ FramesOf(id) # {}
       /\ \A k \in FramesOf(id) : frames[k].data = p)
      => /\ id \in DOMAIN states
         /\ states[id].seen_len = Len(p)
         /\ \A i \in 0..(Len(p) - 1) :
              /\ ~states[id].bytes[i + 1].disqualified
              /\ states[id].bytes[i + 1].value = p[i + 1]
         /\ \E r \in 1..Len(out.rows) :
              /\ out.rows[r].cid = id
              /\ out.rows[r].row = [k \in 1..Len(p) |-> Hex02(p[k])]

\* C4: if two frames of one address in a calibration pass differ at byte index
\* i, index i of that address is disqualified after the pass.
C4_VaryingByteDisqualified ==
  call.name = "calibrate" =>
    \A j \in 1..Len(frames) : \A k \in 1..Len(frames) :
      \A i \in 0..(MAX_CAN_DLC - 1) :
        (/\ frames[j].can_id = frames[k].can_id
         /\ i < Len(frames[j].data)
         /\ i < Len(frames[k].data)
         /\ frames[j].data[i + 1] # frames[k].data[i + 1])
        => states[frames[j].can_id].bytes[i + 1].disqualified

\* C7: a second calibration pass over the frame list of the pass just
\* completed changes no observed_width and no stored value, and disqualifies no
\* further byte index.
C7_SecondPassChangesNothing ==
  [][(call.name = "calibrate" /\ call'.name = "calibrate") =>
       /\ DOMAIN states' = DOMAIN states
       /\ \A id \in DOMAIN states :
            /\ states'[id].seen_len = states[id].seen_len
            /\ \A i \in 0..(MAX_CAN_DLC - 1) :
                 /\ states'[id].bytes[i + 1].value = states[id].bytes[i + 1].value
                 /\ states'[id].bytes[i + 1].disqualified =
                      states[id].bytes[i + 1].disqualified
     ]_vars

PassNames ==
  {"calibrate", "monitor", "variance_report", "id_summary", "read_mode"}

\* C8: when a decoded frame has fewer bytes than its declared length (and no
\* frame has more than the 8 bytes a model holds), no pass over the frame list
\* reads past the bytes present: calibration, monitoring, variance ranking,
\* identifier summary and raw byte dump all end without an exception.
C8_ShortFrameNeverRaises ==
  (/\ call.name \in PassNames
   /\ \E k \in 1..Len(frames) : Len(frames[k].data) < frames[k].dlc
   /\ \A k \in 1..Len(frames) : Len(frames[k].data) <= MAX_CAN_DLC)
  => err = "none"

\* C9: every frame the decoder produced has len(payload) <= declared_length
\* <= 8, and so no calibration pass over decoded frames leaves the 8 byte states
\* of a model.
C9_FrameWithinEightBytes ==
  /\ \A k \in 1..Len(frames) :
       /\ Len(frames[k].data) <= frames[k].dlc
       /\ frames[k].dlc <= MAX_CAN_DLC
  /\ call.name \in {"calibrate", "monitor"} => err = "none"

\* a line that is not blank and matches neither shape, or whose timestamp or
\* byte fields are no numbers of their kind
DecodeFailure(line) ==
  /\ line # BlankLine
  /\ \/ ~Match1(line) /\ ~Match2(line)
     \/ TsShape(line.ts) /\ ~FloatOk(line.ts)
     \/ \E k \in 1..Len(line.data) :
          /\ \A j \in 1..Len(line.data[k]) : IsHex(line.data[k][j])
          /\ ParseInt(line.data[k], 16) > 255

\* C10: a line that fails to decode is skipped and counted, raises nothing, and
\* the decoder goes on with the lines after it.
C10_DecodeFailureSkipped ==
  [][(call'.name = "parse_candump" /\ DecodeFailure(call'.line)) =>
       /\ err' = "none"
       /\ bad_lines' = bad_lines + 1
       /\ frames' = frames
       /\ pc' = "parsing"
     ]_vars

\* C11: the slicer yields, in input order, exactly the frames without
\* timestamp and the frames whose timestamp satisfies start <= ts < end; with
\* start = end only the frames without timestamp.
C11_SliceIsTheWindow ==
  call.name = "slice_by_time" =>
    LET kept == {k \in 1..Len(frames) :
                   \/ frames[k].ts = NoTs
                   \/ call.start <= frames[k].ts /\ frames[k].ts < call.end}
        Nth(j) == CHOOSE k \in kept : Cardinality({m \in kept : m <= k}) = j
    IN  /\ Len(out) = Cardinality(kept)
        /\ \A j \in 1..Len(out) : out[j] = frames[Nth(j)]
        /\ call.start = call.end =>
             \A j \in 1..Len(out) : out[j].ts = NoTs

\* an empty window set on the timestamp of a frame: that frame is dropped, a
\* frame without timestamp passes
C11_Witness ==
  /\ call.name = "slice_by_time"
  /\ call.start = call.end
  /\ \E k \in 1..Len(frames) : frames[k].ts = call.start
  /\ \E k \in 1..Len(frames) : frames[k].ts = NoTs
  /\ Len(out) >= 1
  /\ Len(out) < Len(frames)

\* the timestamps of the timestamped frames of a list
Stamps(frs) == {frs[k].ts : k \in {j \in 1..Len(frs) : frs[j].ts # NoTs}}

\* C12: in every run of main that performs both passes, monitoring follows
\* calibration on a later, disjoint window: no timestamped frame is fed to
\* both passes, and every timestamped frame fed to monitoring has a timestamp
\* >= that of every timestamped frame fed to calibration.
C12_MonitorWindowLater ==
  [][(call.name = "calibrate" /\ call'.name = "monitor") =>
       /\ \A j \in 1..Len(call.frames), k \in 1..Len(call'.frames) :
            call.frames[j].ts # NoTs => call.frames[j] # call'.frames[k]
       /\ \A a \in Stamps(call.frames), b \in Stamps(call'.frames) : b >= a]_vars

\* the positions of the frames of an address in the frame list
Of(id) == {k \in 1..Len(frames) : frames[k].can_id = id}

\* C13: the variance ranking contains an address only if that address occurred
\* in at least 2 frames of the input; an address seen once never appears.
C13_RankedSeenTwice ==
  (call.name = "variance_report" /\ err = "none") =>
    \A j \in 1..Len(out) : Cardinality(Of(out[j].cid)) >= 2

\* a list with an address seen once and an address seen twice, ranked
C13_Witness ==
  /\ call.name = "variance_report"
  /\ err = "none"
  /\ Len(out) = 1
  /\ \E id \in Ids : Cardinality(Of(id)) = 1

\* the byte of a frame at index i (0-based) as the ranking reads it, 0 where
\* the frame has no such byte
ByteAt(fr, i) == IF i < Len(fr.data) /\ i < fr.dlc THEN fr.data[i + 1] ELSE 0

\* n^2 times the score of an address: the sum over the 8 byte indices of
\* n * sum_of_squares - sum^2, n the count of its frames
ScoreTimesSquare(id) ==
  LET n == Cardinality(Of(id))
      Sum1(i) == SumOver([k \in 1..Len(frames) |->
                   IF k \in Of(id) THEN ByteAt(frames[k], i) ELSE 0],
                   Len(frames))
      Sum2(i) == SumOver([k \in 1..Len(frames) |->
                   IF k \in Of(id)
                     THEN ByteAt(frames[k], i) * ByteAt(frames[k], i) ELSE 0],
                   Len(frames))
  IN  SumOver([i \in 1..MAX_CAN_DLC |->
                 n * Sum2(i - 1) - Sum1(i - 1) * Sum1(i - 1)], MAX_CAN_DLC)

\* C14: the variance ranking is in descending order of the score, the sum over
\* the 8 byte indices of sum_of_squares/count - (sum/count)^2; an address with
\* a byte alternating between 00 and FF ranks before an address whose payload
\* is the same in every frame (score 0).
C14_DescendingScore ==
  (call.name = "variance_report" /\ err = "none") =>
    /\ \A j \in 1..Len(out) :
         /\ out[j].n = Cardinality(Of(out[j].cid))
         /\ out[j].key.num * out[j].n * out[j].n
              = ScoreTimesSquare(out[j].cid) * out[j].key.den
    /\ \A j \in 1..(Len(out) - 1) :
         ScoreTimesSquare(out[j].cid) * out[j + 1].n * out[j + 1].n
           >= ScoreTimesSquare(out[j + 1].cid) * out[j].n * out[j].n

\* the constant address comes first in the list, the address alternating
\* between 00 and FF is ranked first
C14_Witness ==
  /\ call.name = "variance_report"
  /\ err = "none"
  /\ Len(frames) = 4
  /\ frames[1].can_id = 1 /\ frames[1].data = <<255>>
  /\ frames[2].can_id = 2 /\ frames[2].data = <<0>>
  /\ frames[3].can_id = 1 /\ frames[3].data = <<255>>
  /\ frames[4].can_id = 2 /\ frames[4].data = <<255>>
  /\ Len(out) = 2
  /\ out[1].cid = 2
  /\ out[2].cid = 1
  /\ out[2].key.num = 0

\* C16: after an identifier summary, every address has its count of frames,
\* the payload of its earliest frame as first and that of its latest frame as
\* last; the rows are at most N, in non-increasing order of count.
C16_SummaryRows ==
  call.name = "id_summary" =>
    LET Addresses == {frames[k].can_id : k \in 1..Len(frames)}
    IN  /\ Len(out) <= ID_SUMMARY_TOP_N
        /\ Len(out) = Min(ID_SUMMARY_TOP_N, Cardinality(Addresses))
        /\ \A j \in 1..Len(out) :
             /\ out[j].cid \in Addresses
             /\ \A m \in 1..Len(out) : out[m].cid = out[j].cid => m = j
             /\ out[j].n = Cardinality(Of(out[j].cid))
             /\ \E k \in Of(out[j].cid) :
                  /\ \A m \in Of(out[j].cid) : k <= m
                  /\ out[j].first = frames[k].data
             /\ \E k \in Of(out[j].cid) :
                  /\ \A m \in Of(out[j].cid) : k >= m
                  /\ out[j].last = frames[k].data
        /\ \A j \in 1..(Len(out) - 1) : out[j].n >= out[j + 1].n

\* the address seen later has more frames and comes first; first and last
\* payloads differ
C16_Witness ==
  /\ call.name = "id_summary"
  /\ Len(out) = 2
  /\ out[1].cid # frames[1].can_id
  /\ out[1].n > out[2].n
  /\ out[1].first # out[1].last

\* a frame of this address is skipped by monitoring: no model, observed width
\* 0, or fully disqualified
Unmonitored(id) ==
  \/ id \notin DOMAIN states
  \/ states[id].seen_len = 0
  \/ states[id].fully_disqualified

\* C15: a monitoring pass never adds a model: the registry has the same keys
\* before and after; a frame whose address has no model, observed width 0 or
\* is fully disqualified gives no change record and changes no model, and is
\* counted as processed all the same.
C15_MonitorAddsNoModel ==
  [][call'.name = "monitor" =>
       /\ DOMAIN states' = DOMAIN states
       /\ err' = "none" => out'.cnt = Len(call'.frames)
       /\ \A id \in Ids : Unmonitored(id) =>
            /\ \A j \in 1..Len(out'.changes) : out'.changes[j].id # id
            /\ id \in DOMAIN states => states'[id] = states[id]]_vars

\* a pass over frames of a fully disqualified address and of a monitored one:
\* all are counted, the records are those of the monitored address
C15_Witness ==
  /\ call.name = "monitor"
  /\ err = "none"
  /\ out.cnt = Len(frames)
  /\ 1 \in DOMAIN states
  /\ states[1].fully_disqualified
  /\ \E k \in 1..Len(frames) : frames[k].can_id = 1
  /\ out.changes # << >>
  /\ \A j \in 1..Len(out.changes) : out.changes[j].id = 2

\* C17: calibration never seeds a baseline at a byte index >= 1: after
\* calibration alone every index i >= 1 of every model has the value 0, so
\* such an index is not disqualified only if every calibration frame that had
\* it carried 00 there; index 0 holds a non-zero value only if a frame seeded
\* it while the observed width was <= 1.
C17_SeedOnlyAtIndexZero ==
  \A id \in DOMAIN states :
    LET st == states[id] IN
    /\ \A i \in 1..(MAX_CAN_DLC - 1) :
         /\ st.bytes[i + 1].value = 0
         /\ ~st.bytes[i + 1].disqualified =>
              \A k \in Of(id) :
                i < Len(frames[k].data) => frames[k].data[i + 1] = 0
    /\ st.bytes[1].value # 0 =>
         \E k \in Of(id) :
           /\ Len(frames[k].data) = 1
           /\ frames[k].data[1] = st.bytes[1].value
           /\ \A j \in Of(id) : j < k => Len(frames[j].data) <= 1

\* a model of width 2 after calibration: index 0 seeded with a non-zero byte,
\* index 1 not disqualified
C17_Witness ==
  /\ call.name = "calibrate"
  /\ \E id \in DOMAIN states :
       /\ states[id].seen_len = 2
       /\ states[id].bytes[1].value # 0
       /\ ~states[id].bytes[1].disqualified
       /\ ~states[id].bytes[2].disqualified

====
